---- MODULE Spec2Model ----
(***************************************************************************)
(* GenericSource of opengate/sources/generic.py: the configuration record  *)
(* of a particle source, its particle setter hook, its validation          *)
(* (initialize), the event-count predictor and the run statistics.         *)
(*                                                                         *)
(* Energies are integers in keV, times and activities are integers.        *)
(* Python strings that the code parses (the particle name) are sequences   *)
(* of one-character strings; strings that the code only compares (type     *)
(* names) are TLA+ strings.                                                *)
(***************************************************************************)
EXTENDS Integers, Sequences, FiniteSets, TLC

VARIABLES self, g4, pc, err, given, warned, predicted

vars == <<self, g4, pc, err, given, warned, predicted>>

(***************************************************************************)
(* Bounds of the model.                                                    *)
(***************************************************************************)
MaxN == 2
MaxActivity == 2
MaxTacLen == 2
MaxSkipped == 2
MaxLife == 2

(***************************************************************************)
(* Python values: a list attribute is None, a list, or (in a Box) absent.  *)
(***************************************************************************)
None == [kind |-> "None", list |-> <<>>]
Absent == [kind |-> "absent", list |-> <<>>]
List(s) == [kind |-> "list", list |-> s]

\* An ion field holds a Python int or a Python str (never equal to each other).
IntV(i) == [t |-> "int", i |-> i, s |-> <<>>]
StrV(w) == [t |-> "str", i |-> 0, s |-> w]

(***************************************************************************)
(* Particle names, as character sequences.                                 *)
(***************************************************************************)
sp == " "
s_ion == <<"i", "o", "n">>
s_gamma == <<"g", "a", "m", "m", "a">>
s_eplus == <<"e", "+">>
s_back_to_back == <<"b", "a", "c", "k", "_", "t", "o", "_", "b", "a", "c", "k">>
s_ion_9 == s_ion \o <<sp, "9">>
s_ion_9_18 == s_ion_9 \o <<sp, "1", "8">>
s_ion_9_18_0 == s_ion_9_18 \o <<sp, "0">>
s_ion_8_15_2 == s_ion \o <<sp, "8", sp, "1", "5", sp, "2">>
s_ion_9_x == s_ion_9 \o <<sp, "x">>

Digits == <<"0", "1", "2", "3", "4", "5", "6", "7", "8", "9">>

IsDigit(c) == \E d \in 1..10 : Digits[d] = c

DigitValue(c) == (CHOOSE d \in 1..10 : Digits[d] = c) - 1

\* str.startswith
startswith(s, p) == Len(s) >= Len(p) /\ SubSeq(s, 1, Len(p)) = p

\* str.split(" "): cut at every separator, empty words kept
RECURSIVE split(_)
split(s) ==
    IF \A i \in 1..Len(s) : s[i] # sp
    THEN <<s>>
    ELSE LET i == CHOOSE k \in 1..Len(s) : s[k] = sp /\ \A j \in 1..(k - 1) : s[j] # sp
         IN <<SubSeq(s, 1, i - 1)>> \o split(SubSeq(s, i + 1, Len(s)))

\* int(word), for words without sign, blank or underscore: the value of a
\* non-empty run of decimal digits, ValueError for any other word
CanInt(w) == Len(w) > 0 /\ \A i \in 1..Len(w) : IsDigit(w[i])

RECURSIVE int(_)
int(w) == IF Len(w) = 0 THEN 0
          ELSE 10 * int(SubSeq(w, 1, Len(w) - 1)) + DigitValue(w[Len(w)])

(***************************************************************************)
(* The default sub-records (Box) of user_info_defaults.                    *)
(***************************************************************************)
_generic_source_default_position ==
    [is_box |-> TRUE, type |-> "point", confine |-> "None"]

_generic_source_default_aa ==
    [skip_policy |-> "SkipEvents", intersection_flag |-> FALSE, normal_flag |-> FALSE]

_generic_source_default_direction ==
    [is_box |-> TRUE, type |-> "iso", acceptance_angle |-> _generic_source_default_aa]

_generic_source_default_energy ==
    [is_box |-> TRUE, type |-> "mono", mono |-> 0, is_cdf |-> FALSE,
     spectrum_type |-> "None",
     histogram_weight |-> Absent, histogram_energy |-> Absent]

\* n, activity, start_time and half_life are the fields GenericSource inherits
\* from SourceBase: unset they are 0, 0, 0 and negative.
user_info_defaults ==
    [particle |-> s_gamma,
     ion |-> [Z |-> IntV(0), A |-> IntV(0), E |-> IntV(0)],
     user_particle_life_time |-> -1,
     tac_times |-> None,
     tac_activities |-> None,
     position |-> _generic_source_default_position,
     direction |-> _generic_source_default_direction,
     energy |-> _generic_source_default_energy,
     n |-> 0, activity |-> 0, start_time |-> 0, half_life |-> -1,
     total_zero_events |-> 0, total_skipped_events |-> 0]

\* The engine object (g4.GateGenericSource) behind the source.
g4_init ==
    [initialized |-> FALSE, tac_set |-> 0,
     energy_cdf_set |-> 0, probability_cdf_set |-> 0,
     emitted |-> 0, accepted |-> 0, zero |-> 0, skipped |-> 0]

(***************************************************************************)
(* _setter_hook_generic_source_particle: the ion fields after              *)
(* "particle = p", and whether int() raised on the way.                    *)
(***************************************************************************)
setter_hook_ion(ion, p) ==
    IF ~startswith(p, s_ion) THEN [ion |-> ion, ok |-> TRUE]
    ELSE LET words == split(p)
             z == IF Len(words) > 1 THEN CanInt(words[2]) ELSE TRUE
             a == IF Len(words) > 2 THEN CanInt(words[3]) ELSE TRUE
             e == IF Len(words) > 3 THEN CanInt(words[4]) ELSE TRUE
             i1 == IF Len(words) > 1 /\ z
                   THEN [ion EXCEPT !.Z = IntV(int(words[2]))] ELSE ion
             i2 == IF Len(words) > 2 /\ z /\ a
                   THEN [i1 EXCEPT !.A = IntV(int(words[3]))] ELSE i1
             i3 == IF Len(words) > 3 /\ z /\ a /\ e
                   THEN [i2 EXCEPT !.E = IntV(int(words[4]))] ELSE i2
         IN [ion |-> i3, ok |-> z /\ a /\ e]

\* GenericSource.__init__: the words after "ion" are stored as they are
ctor_ion(ion, p) ==
    IF ~startswith(p, s_ion) THEN ion
    ELSE LET words == split(p)
             i1 == IF Len(words) > 1 THEN [ion EXCEPT !.Z = StrV(words[2])] ELSE ion
             i2 == IF Len(words) > 2 THEN [i1 EXCEPT !.A = StrV(words[3])] ELSE i1
             i3 == IF Len(words) > 3 THEN [i2 EXCEPT !.E = StrV(words[4])] ELSE i2
         IN i3

\* GenericSource(particle=p)
GenericSource(p) ==
    [user_info_defaults EXCEPT !.particle = p,
                               !.ion = ctor_ion(user_info_defaults.ion, p)]

InitWith(P) ==
    /\ \E p \in P : self = GenericSource(p)
    /\ g4 = g4_init
    /\ pc = "config"
    /\ err = "none"
    /\ given = self
    /\ warned = FALSE
    /\ predicted = "unset"

\* source.particle = p, p a str: the hook runs first, and an exception in it
\* leaves the particle unassigned
SetParticle(P) ==
    /\ pc = "config"
    /\ \E p \in P :
         LET r == setter_hook_ion(self.ion, p)
         IN /\ self' = [self EXCEPT !.ion = r.ion,
                                    !.particle = IF r.ok THEN p ELSE @]
            /\ pc' = IF r.ok THEN pc ELSE "error"
            /\ err' = IF r.ok THEN err ELSE "ValueError"
    /\ UNCHANGED <<g4, given, warned, predicted>>

(***************************************************************************)
(* initialize works on the source in place and stops at the first fatal()  *)
(* or uncaught exception: st is the source, the engine and how far the     *)
(* call got (pc "run": still running; "fatal": fatal() was called;         *)
(* "error": a Python exception escaped).                                   *)
(***************************************************************************)
fatal(st, e) == [st EXCEPT !.pc = "fatal", !.err = e]

raise(st, e) == [st EXCEPT !.pc = "error", !.err = e]

\* the call has not been left; a statement reached after fatal() or an
\* exception is not executed
Running(st) == st.pc = "run"

\* beta-plus emitters with a tabulated spectrum (opengate/sources/base.py)
all_beta_plus_radionuclides == {"F18", "Ga68", "C11", "O15"}

energy_types ==
    {"mono", "gauss", "F18_analytic", "O15_analytic", "C11_analytic", "histogram",
     "spectrum_discrete", "spectrum_histogram", "range"}
        \cup all_beta_plus_radionuclides

valid_spectrum_types == {"discrete", "histogram", "interpolated"}

direction_types == {"iso", "histogram", "momentum", "focused", "beam2d"}

\* 511 * g4_units.keV, in keV
mono_back_to_back == 511

\* lines 195-206: position, direction and energy must be Box objects
check_boxes(st) ==
    IF ~Running(st) THEN st ELSE
    IF ~st.self.position.is_box THEN fatal(st, "position_not_box")
    ELSE IF ~st.self.direction.is_box THEN fatal(st, "direction_not_box")
    ELSE IF ~st.self.energy.is_box THEN fatal(st, "energy_not_box")
    ELSE st

\* the override of the energy value without the override of the energy type
force_back_to_back_mono_only(st) ==
    IF ~Running(st) THEN st ELSE
    IF st.self.particle = s_back_to_back
    THEN [st EXCEPT !.self.energy.mono = mono_back_to_back]
    ELSE st

\* lines 208-211
force_back_to_back(st) ==
    IF ~Running(st) THEN st ELSE
    IF st.self.particle = s_back_to_back
    THEN [st EXCEPT !.self.energy.type = "mono",
                    !.self.energy.mono = mono_back_to_back]
    ELSE st

\* lines 213-230
check_energy_type(st) ==
    IF ~Running(st) THEN st ELSE
    IF st.self.energy.type \notin energy_types THEN fatal(st, "energy_type") ELSE st

\* lines 232-243
check_spectrum_type(st) ==
    IF ~Running(st) THEN st ELSE
    IF st.self.energy.spectrum_type # "None"
       /\ st.self.energy.spectrum_type \notin valid_spectrum_types
    THEN fatal(st, "spectrum_type")
    ELSE st

\* the positron-spectrum branch without its test of the particle
beta_plus_spectrum_any_particle(st) ==
    IF ~Running(st) THEN st ELSE
    IF st.self.energy.type \in all_beta_plus_radionuclides
    THEN [st EXCEPT !.self.energy.is_cdf = TRUE,
                    !.g4.energy_cdf_set = @ + 1,
                    !.g4.probability_cdf_set = @ + 1]
    ELSE st

\* lines 245-257: the tabulated positron spectrum is installed as a CDF
\* (SetEnergyCDF, line 256, and SetProbabilityCDF, line 257)
beta_plus_spectrum(st) ==
    IF ~Running(st) THEN st ELSE
    IF st.self.particle = s_eplus /\ st.self.energy.type \in all_beta_plus_radionuclides
    THEN [st EXCEPT !.self.energy.is_cdf = TRUE,
                    !.g4.energy_cdf_set = @ + 1,
                    !.g4.probability_cdf_set = @ + 1]
    ELSE st

\* update_tac_activity without the override of start_time and activity
update_tac_activity_no_override(st) ==
    IF ~Running(st) THEN st ELSE
    LET t == st.self.tac_times
        a == st.self.tac_activities
    IN IF t.kind = "None" /\ a.kind = "None" THEN st
       ELSE IF t.kind = "None" \/ a.kind = "None" THEN raise(st, "TypeError")
       ELSE IF Len(t.list) # Len(a.list) THEN fatal(st, "tac_size")
       ELSE IF Len(t.list) = 0 THEN raise(st, "IndexError")
       ELSE [st EXCEPT !.g4.tac_set = @ + 1]

\* lines 336-347
update_tac_activity(st) ==
    IF ~Running(st) THEN st ELSE
    LET t == st.self.tac_times
        a == st.self.tac_activities
    IN IF t.kind = "None" /\ a.kind = "None" THEN st
       ELSE IF t.kind = "None" \/ a.kind = "None" THEN raise(st, "TypeError")
       ELSE IF Len(t.list) # Len(a.list) THEN fatal(st, "tac_size")
       ELSE IF Len(t.list) = 0 THEN raise(st, "IndexError")
       ELSE [st EXCEPT !.self.start_time = t.list[1],
                       !.self.activity = a.list[1],
                       !.g4.tac_set = @ + 1]

\* lines 261-268: the two attributes are read from the energy Box, weight first
check_histogram(st) ==
    IF ~Running(st) THEN st ELSE
    LET w == st.self.energy.histogram_weight
        e == st.self.energy.histogram_energy
    IN IF st.self.energy.type # "histogram" THEN st
       ELSE IF w.kind = "absent" THEN raise(st, "AttributeError")
       ELSE IF w.kind = "None" THEN raise(st, "TypeError")
       ELSE IF e.kind = "absent" THEN raise(st, "AttributeError")
       ELSE IF e.kind = "None" THEN raise(st, "TypeError")
       ELSE IF Len(w.list) # Len(e.list) THEN fatal(st, "histogram_size")
       ELSE st

\* initialize without the check of direction.type
check_direction_type_skipped(st) == st

\* lines 270-276
check_direction_type(st) ==
    IF ~Running(st) THEN st ELSE
    IF st.self.direction.type \notin direction_types
    THEN fatal(st, "direction_type")
    ELSE st

\* the coercion without the test that the life time is unset
half_life_logic_always(st) ==
    IF ~Running(st) THEN st ELSE
    IF st.self.half_life > 0
    THEN [st EXCEPT !.self.user_particle_life_time = 0]
    ELSE st

\* lines 278-283
half_life_logic(st) ==
    IF ~Running(st) THEN st ELSE
    IF st.self.half_life > 0 /\ st.self.user_particle_life_time < 0
    THEN [st EXCEPT !.self.user_particle_life_time = 0]
    ELSE st

\* line 286: SourceBase.initialize hands the user info to the engine
SourceBase_initialize(st) ==
    IF ~Running(st) THEN st ELSE [st EXCEPT !.g4.initialized = TRUE]

\* lines 288-297
check_n_activity(st) ==
    IF ~Running(st) THEN st ELSE
    IF st.self.n > 0 /\ st.self.activity > 0 THEN fatal(st, "both_n_activity")
    ELSE IF st.self.n = 0 /\ st.self.activity = 0 THEN fatal(st, "no_n_activity")
    ELSE LET s1 == IF st.self.activity > 0 THEN [st EXCEPT !.self.n = 0] ELSE st
         IN IF s1.self.n > 0 THEN [s1 EXCEPT !.self.activity = 0] ELSE s1

\* lines 300-306: warning(), not fatal
check_confine(st) ==
    IF ~Running(st) THEN st ELSE
    IF st.self.position.confine # "None" /\ st.self.position.type = "point"
    THEN [st EXCEPT !.warned = TRUE]
    ELSE st

\* initialize with its steps in the order: type checks, back-to-back override,
\* n/activity rule, time-activity curve, histogram, half life, confine
initialize_types_first(st) ==
    LET s1 == check_boxes(st)
        s2 == check_energy_type(s1)
        s3 == check_spectrum_type(s2)
        s4 == check_direction_type(s3)
        s5 == force_back_to_back(s4)
        s6 == beta_plus_spectrum(s5)
        s7 == SourceBase_initialize(s6)
        s8 == check_n_activity(s7)
        s9 == update_tac_activity(s8)
        s10 == check_histogram(s9)
        s11 == half_life_logic(s10)
    IN check_confine(s11)

\* initialize with the n/activity rule applied before the time-activity curve
\* is read, that is to the activity the user set
initialize_rule_before_curve(st) ==
    LET s1 == check_boxes(st)
        s2 == force_back_to_back(s1)
        s3 == check_energy_type(s2)
        s4 == check_spectrum_type(s3)
        s5 == beta_plus_spectrum(s4)
        s6 == check_n_activity(s5)
        s7 == update_tac_activity(s6)
        s8 == check_histogram(s7)
        s9 == check_direction_type(s8)
        s10 == half_life_logic(s9)
        s11 == SourceBase_initialize(s10)
    IN check_confine(s11)

\* GenericSource.initialize, lines 194-306
initialize(st) ==
    LET s1 == check_boxes(st)
        s2 == force_back_to_back(s1)
        s3 == check_energy_type(s2)
        s4 == check_spectrum_type(s3)
        s5 == beta_plus_spectrum(s4)
        s6 == update_tac_activity(s5)
        s7 == check_histogram(s6)
        s8 == check_direction_type(s7)
        s9 == half_life_logic(s8)
        s10 == SourceBase_initialize(s9)
        s11 == check_n_activity(s10)
    IN check_confine(s11)

Initialize ==
    /\ pc = "config"
    /\ LET r == initialize([self |-> self, g4 |-> g4, pc |-> "run",
                            err |-> "none", warned |-> FALSE])
       IN /\ self' = r.self
          /\ g4' = r.g4
          /\ pc' = IF r.pc = "run" THEN "done" ELSE r.pc
          /\ err' = r.err
          /\ warned' = r.warned
    /\ given' = self
    /\ UNCHANGED predicted

(***************************************************************************)
(* The user's assignments to the source before the simulation starts.      *)
(***************************************************************************)
Configure(next) ==
    /\ pc = "config"
    /\ self' = next
    /\ UNCHANGED <<g4, pc, err, given, warned, predicted>>

SetN(V) == \E v \in V : Configure([self EXCEPT !.n = v])

SetActivity(V) == \E v \in V : Configure([self EXCEPT !.activity = v])

SetStartTime(V) == \E v \in V : Configure([self EXCEPT !.start_time = v])

SetHalfLife(V) == \E v \in V : Configure([self EXCEPT !.half_life = v])

SetUserParticleLifeTime(V) ==
    \E v \in V : Configure([self EXCEPT !.user_particle_life_time = v])

SetTacTimes(V) == \E v \in V : Configure([self EXCEPT !.tac_times = v])

SetTacActivities(V) == \E v \in V : Configure([self EXCEPT !.tac_activities = v])

SetEnergyType(V) == \E v \in V : Configure([self EXCEPT !.energy.type = v])

SetEnergyMono(V) == \E v \in V : Configure([self EXCEPT !.energy.mono = v])

SetSpectrumType(V) == \E v \in V : Configure([self EXCEPT !.energy.spectrum_type = v])
SetIsCdf(V) == \E v \in V : Configure([self EXCEPT !.energy.is_cdf = v])

SetHistogramWeight(V) ==
    \E v \in V : Configure([self EXCEPT !.energy.histogram_weight = v])

SetHistogramEnergy(V) ==
    \E v \in V : Configure([self EXCEPT !.energy.histogram_energy = v])

SetDirectionType(V) == \E v \in V : Configure([self EXCEPT !.direction.type = v])

SetConfine(V) == \E v \in V : Configure([self EXCEPT !.position.confine = v])

SetPositionType(V) == \E v \in V : Configure([self EXCEPT !.position.type = v])

\* source.energy = <something that is not a Box>
SetEnergyNotBox == Configure([self EXCEPT !.energy.is_box = FALSE])

SetAcceptanceAngle(P) ==
    \E i \in BOOLEAN, f \in BOOLEAN, p \in P :
        Configure([self EXCEPT !.direction.acceptance_angle =
            [skip_policy |-> p, intersection_flag |-> i, normal_flag |-> f]])

(***************************************************************************)
(* The event-count predictor.                                              *)
(***************************************************************************)
\* the predictor looking at intersection_flag only
can_predict_ignoring_normal_flag(src) ==
    LET aa == src.direction.acceptance_angle
    IN IF aa.intersection_flag
       THEN IF aa.skip_policy = "ZeroEnergy" THEN TRUE ELSE FALSE
       ELSE TRUE

\* lines 349-355
can_predict_number_of_events(src) ==
    LET aa == src.direction.acceptance_angle
    IN IF aa.intersection_flag \/ aa.normal_flag
       THEN IF aa.skip_policy = "ZeroEnergy" THEN TRUE ELSE FALSE
       ELSE TRUE

\* the source manager asks the initialized source before and during the run
CanPredict ==
    /\ pc = "done"
    /\ predicted' = IF can_predict_number_of_events(self) THEN "true" ELSE "false"
    /\ UNCHANGED <<self, g4, pc, err, given, warned>>

(***************************************************************************)
(* The run: the engine generates the primaries of a source that asked for  *)
(* n events and applies the acceptance-angle policy to each sampled        *)
(* direction; prepare_output copies the engine's counters to the source.   *)
(***************************************************************************)
RunOpen == pc = "done" /\ self.n > 0 /\ g4.emitted < self.n

\* the sampled direction passes the acceptance test (or none is configured)
AcceptEvent ==
    /\ RunOpen
    /\ g4' = [g4 EXCEPT !.emitted = @ + 1, !.accepted = @ + 1]
    /\ UNCHANGED <<self, pc, err, given, warned, predicted>>

\* the sampled direction is rejected: a zero-energy event under ZeroEnergy,
\* a skipped sample (to be drawn again) under SkipEvents
RejectEvent ==
    /\ RunOpen
    /\ LET aa == self.direction.acceptance_angle
       IN /\ aa.intersection_flag \/ aa.normal_flag
          /\ \/ /\ aa.skip_policy = "ZeroEnergy"
                /\ g4' = [g4 EXCEPT !.emitted = @ + 1, !.zero = @ + 1]
             \/ /\ aa.skip_policy = "SkipEvents"
                /\ g4.skipped < MaxSkipped
                /\ g4' = [g4 EXCEPT !.skipped = @ + 1]
    /\ UNCHANGED <<self, pc, err, given, warned, predicted>>

\* prepare_output storing each engine counter in the other field
prepare_output_swapped(src, eng) ==
    [src EXCEPT !.total_zero_events = eng.skipped,
                !.total_skipped_events = eng.zero]

\* lines 330-334, with GetTotalZeroEvents and GetTotalSkippedEvents of the engine
prepare_output(src, eng) ==
    [src EXCEPT !.total_zero_events = eng.zero,
                !.total_skipped_events = eng.skipped]

PrepareOutput ==
    /\ pc = "done"
    /\ self.n > 0
    /\ g4.emitted = self.n
    /\ self' = prepare_output(self, g4)
    /\ pc' = "output"
    /\ UNCHANGED <<g4, err, given, warned, predicted>>

(***************************************************************************)
(* Values the user gives.                                                  *)
(***************************************************************************)
CtorParticles == {s_gamma, s_ion, s_ion_9, s_ion_9_18, s_ion_9_18_0, s_ion_8_15_2}
SetterParticles == CtorParticles \cup {s_eplus, s_ion_9_x}

RECURSIVE SeqsUpTo(_, _)
SeqsUpTo(S, k) ==
    IF k = 0 THEN {<<>>}
    ELSE LET shorter == SeqsUpTo(S, k - 1)
         IN shorter \cup {Append(s, x) : s \in shorter, x \in S}

Lists(S, k) == {List(s) : s \in SeqsUpTo(S, k)}

TimeValues == {0, 1}
TacActivityValues == {0, 1, 2}

(***************************************************************************)
(* Spec: validation of a source whose every checked field the user may     *)
(* have set, over two or three values per field.                           *)
(***************************************************************************)
Init == InitWith({s_gamma})

Next ==
    \/ SetParticle({s_gamma, s_back_to_back})
    \/ SetEnergyType({"mono", "histogram", "bogus"})
    \/ SetSpectrumType({"None", "bogus"})
    \/ SetDirectionType({"iso", "bogus"})
    \/ SetHistogramWeight({Absent, List(<<1>>)})
    \/ SetHistogramEnergy({List(<<1>>), List(<<1, 2>>)})
    \/ SetN({-1, 0, 1})
    \/ SetActivity({-1, 0, 1})
    \/ SetTacTimes({None, List(<<1>>), List(<<1, 2>>)})
    \/ SetTacActivities({None, List(<<0>>), List(<<2>>)})
    \/ SetHalfLife({-1, 1})
    \/ SetUserParticleLifeTime({-1, 1})
    \/ SetConfine({"None", "volume"})
    \/ SetEnergyNotBox
    \/ Initialize

Spec == Init /\ [][Next]_vars

(***************************************************************************)
(* SpecIon: the particle name and the ion fields.                          *)
(***************************************************************************)
InitIon == InitWith(CtorParticles)
NextIon == SetParticle(SetterParticles)
SpecIon == InitIon /\ [][NextIon]_vars

(***************************************************************************)
(* SpecActivity: n, activity, start time and the time-activity curve.      *)
(***************************************************************************)
NextActivity ==
    \/ SetN(-1..MaxN)
    \/ SetActivity(-1..MaxActivity)
    \/ SetStartTime({0, 3})
    \/ SetTacTimes({None} \cup Lists(TimeValues, MaxTacLen))
    \/ SetTacActivities({None} \cup Lists(TacActivityValues, MaxTacLen))
    \/ Initialize

SpecActivity == Init /\ [][NextActivity]_vars

(***************************************************************************)
(* SpecTypes: particle, energy, spectrum and direction types.              *)
(***************************************************************************)
NextTypes ==
    \/ SetParticle({s_gamma, s_back_to_back, s_eplus})
    \/ SetEnergyType({"mono", "gauss", "histogram", "F18", "bogus"})
    \/ SetEnergyMono({0, 511, 2000})
    \/ SetSpectrumType({"None", "discrete", "bogus"})
    \/ SetDirectionType({"iso", "momentum", "bogus"})
    \/ SetHistogramWeight({Absent, List(<<1>>), List(<<1, 1>>)})
    \/ SetHistogramEnergy({Absent, List(<<1>>), List(<<1, 2>>)})
    \/ SetN({0, 1})
    \/ SetTacTimes({None, List(<<0>>)})
    \/ SetTacActivities({None, List(<<0>>), List(<<0, 0>>)})
    \/ Initialize

SpecTypes == Init /\ [][NextTypes]_vars

(***************************************************************************)
(* SpecLife: half life and particle life time.                             *)
(***************************************************************************)
NextLife ==
    \/ SetHalfLife(-1..MaxLife)
    \/ SetUserParticleLifeTime(-1..MaxLife)
    \/ SetN(0..MaxN)
    \/ SetActivity(0..MaxActivity)
    \/ Initialize

SpecLife == Init /\ [][NextLife]_vars

(***************************************************************************)
(* SpecSpectrum: the particle, the energy type and the CDF flag.           *)
(***************************************************************************)
NextSpectrum ==
    \/ SetParticle({s_gamma, s_eplus, s_back_to_back, s_ion_9_18})
    \/ SetEnergyType({"mono", "F18", "O15", "bogus"})
    \/ SetIsCdf(BOOLEAN)
    \/ SetSpectrumType({"None", "bogus"})
    \/ SetDirectionType({"iso", "bogus"})
    \/ SetEnergyNotBox
    \/ SetN({0, 1})
    \/ Initialize

SpecSpectrum == Init /\ [][NextSpectrum]_vars

(***************************************************************************)
(* SpecRun: the acceptance angle, the predictor and the run.               *)
(***************************************************************************)
NextRun ==
    \/ SetAcceptanceAngle({"SkipEvents", "ZeroEnergy"})
    \/ SetN(0..MaxN)
    \/ Initialize
    \/ CanPredict
    \/ AcceptEvent
    \/ RejectEvent
    \/ PrepareOutput

SpecRun == Init /\ [][NextRun]_vars

(***************************************************************************)
(* Properties.  given is the source as the user had configured it when     *)
(* initialize was called; self is the source as initialize left it.        *)
(***************************************************************************)
Called == pc \in {"done", "fatal", "error"}

BoxesOk(src) == src.position.is_box /\ src.direction.is_box /\ src.energy.is_box

NoTac(src) == src.tac_times.kind = "None" /\ src.tac_activities.kind = "None"

\* C1: for every user-supplied (n, activity), negative values included, a
\* completed initialize leaves exactly one of n and activity strictly positive
\* and the other zero, and initialize is fatal when both are zero and when both
\* are strictly positive (stated for a source without time-activity curve).
C1_ExactlyOnePositive ==
    (Called /\ NoTac(given)) =>
        /\ pc = "done" =>
              \/ self.n > 0 /\ self.activity = 0
              \/ self.activity > 0 /\ self.n = 0
        /\ (given.n = 0 /\ given.activity = 0) => pc = "fatal"
        /\ (given.n > 0 /\ given.activity > 0) => pc = "fatal"

\* What is true of C1 for the code: the two fatal cases, and the resolution
\* whenever one of the two values is strictly positive.
C1_FatalCases ==
    (Called /\ NoTac(given)) =>
        /\ (given.n = 0 /\ given.activity = 0) => pc = "fatal" /\ err = "no_n_activity"
        /\ (given.n > 0 /\ given.activity > 0) => pc = "fatal" /\ err = "both_n_activity"
        /\ (pc = "done" /\ (given.n > 0 \/ given.activity > 0)) =>
              \/ self.n > 0 /\ self.activity = 0
              \/ self.activity > 0 /\ self.n = 0

\* the n/activity rule of initialize, applied to the activity the curve gives
Exclusive(n, activity) == ~(n > 0 /\ activity > 0) /\ ~(n = 0 /\ activity = 0)

\* C2: with tac_times and tac_activities both set, different lengths are fatal;
\* with equal non-zero lengths a source that no other check of initialize
\* rejects is accepted, and then start_time = tac_times[0] and
\* activity = tac_activities[0] whatever start_time and activity the user set.
C2_TacValidation ==
    LET t == given.tac_times.list
        a == given.tac_activities.list
    IN (Called /\ given.tac_times.kind = "list" /\ given.tac_activities.kind = "list") =>
        /\ Len(t) # Len(a) => pc = "fatal" /\ err = "tac_size"
        /\ (Len(t) = Len(a) /\ Len(t) > 0) =>
              /\ Exclusive(given.n, a[1]) => pc = "done"
              /\ pc = "done" => self.start_time = t[1] /\ self.activity = a[1]

\* C2 witness: an accepted source whose start time and activity were both
\* replaced by the first sample of the curve.
C2_Witness ==
    /\ pc = "done"
    /\ given.tac_times.kind = "list" /\ given.tac_activities.kind = "list"
    /\ Len(given.tac_times.list) = 2 /\ Len(given.tac_activities.list) = 2
    /\ given.start_time # given.tac_times.list[1]
    /\ given.activity # given.tac_activities.list[1]
    /\ self.start_time = given.tac_times.list[1]
    /\ self.activity = given.tac_activities.list[1]

\* C7: after the particle is set to "ion Z A E", by the setter or at
\* construction, ion.Z, ion.A and ion.E are the integers Z, A and E.
IsIonZAE(p) ==
    /\ startswith(p, s_ion)
    /\ Len(split(p)) = 4
    /\ \A k \in 2..4 : CanInt(split(p)[k])

C7_IonIntegers ==
    (pc = "config" /\ IsIonZAE(self.particle)) =>
        LET words == split(self.particle)
        IN self.ion = [Z |-> IntV(int(words[2])), A |-> IntV(int(words[3])),
                       E |-> IntV(int(words[4]))]

\* The setter path of C7 alone: every assignment of an ion name gives the
\* integers of the words present and keeps the other ion fields, and any other
\* name keeps them all.
C7_SetterPath ==
    [][(pc = "config" /\ pc' = "config" /\ self'.particle # self.particle) =>
         LET words == split(self'.particle)
         IN IF startswith(self'.particle, s_ion)
            THEN /\ self'.ion.Z = IF Len(words) > 1 THEN IntV(int(words[2])) ELSE self.ion.Z
                 /\ self'.ion.A = IF Len(words) > 2 THEN IntV(int(words[3])) ELSE self.ion.A
                 /\ self'.ion.E = IF Len(words) > 3 THEN IntV(int(words[4])) ELSE self.ion.E
            ELSE self'.ion = self.ion]_vars

\* C10: a source with exactly one of tac_times and tac_activities set, or with
\* both set and empty, is rejected by a fatal configuration error.
C10_TacTogether ==
    LET t == given.tac_times
        a == given.tac_activities
    IN (Called /\ (\/ (t.kind = "None") # (a.kind = "None")
                   \/ (t.kind = "list" /\ a.kind = "list"
                       /\ Len(t.list) = 0 /\ Len(a.list) = 0))) =>
        pc = "fatal"

\* C3: can_predict_number_of_events is true when neither acceptance flag is
\* set, true when a flag is set and skip_policy is "ZeroEnergy", false when a
\* flag is set and skip_policy is "SkipEvents"; the call changes no field of
\* the source (nor the engine).
C3_Value ==
    LET aa == self.direction.acceptance_angle
        flagged == aa.intersection_flag \/ aa.normal_flag
    IN predicted # "unset" =>
        /\ ~flagged => predicted = "true"
        /\ (flagged /\ aa.skip_policy = "ZeroEnergy") => predicted = "true"
        /\ (flagged /\ aa.skip_policy = "SkipEvents") => predicted = "false"

\* C3: the value of can_predict_number_of_events, and the call changing nothing
C3_CanPredict ==
    /\ []C3_Value
    /\ [][predicted' # predicted => (self' = self /\ g4' = g4 /\ pc' = pc)]_vars

\* C3 witness: the predictor has answered false for a source with only
\* normal_flag set under SkipEvents.
C3_Witness ==
    /\ predicted = "false"
    /\ self.direction.acceptance_angle.normal_flag
    /\ ~self.direction.acceptance_angle.intersection_flag
    /\ self.direction.acceptance_angle.skip_policy = "SkipEvents"

\* C4: for a source asking for n events with an acceptance flag set: under
\* ZeroEnergy every rejected direction is an emitted zero event counted in
\* total_zero_events (never in total_skipped_events) and the run ends with
\* exactly n emitted events; under SkipEvents every rejected direction is
\* counted in total_skipped_events without being emitted and the run ends with
\* exactly n accepted events; the counters never decrease.
C4_Counts ==
    LET aa == self.direction.acceptance_angle
        flagged == aa.intersection_flag \/ aa.normal_flag
    IN (pc \in {"done", "output"} /\ self.n > 0 /\ flagged) =>
        /\ aa.skip_policy = "ZeroEnergy" =>
              /\ g4.skipped = 0 /\ g4.emitted = g4.accepted + g4.zero
              /\ pc = "output" =>
                    /\ g4.emitted = self.n
                    /\ self.total_zero_events = g4.emitted - g4.accepted
                    /\ self.total_skipped_events = 0
        /\ aa.skip_policy = "SkipEvents" =>
              /\ g4.zero = 0 /\ g4.emitted = g4.accepted
              /\ pc = "output" =>
                    /\ g4.accepted = self.n
                    /\ self.total_skipped_events = g4.skipped
                    /\ self.total_zero_events = 0

C4_Step ==
    /\ self'.total_zero_events >= self.total_zero_events
    /\ self'.total_skipped_events >= self.total_skipped_events
    /\ g4'.zero >= g4.zero /\ g4'.skipped >= g4.skipped
    /\ g4'.zero > g4.zero => (g4'.zero = g4.zero + 1 /\ g4'.emitted = g4.emitted + 1)
    /\ g4'.skipped > g4.skipped =>
          (g4'.skipped = g4.skipped + 1 /\ g4'.emitted = g4.emitted)

C5_BackToBack ==
    (Called /\ BoxesOk(given)) =>
        IF given.particle = s_back_to_back
        THEN self.energy.type = "mono" /\ self.energy.mono = 511
        ELSE /\ self.energy.type = given.energy.type
             /\ self.energy.mono = given.energy.mono

\* C5 witness: an accepted back-to-back source configured with a gauss energy.
C5_Witness ==
    /\ pc = "done"
    /\ given.particle = s_back_to_back
    /\ given.energy.type = "gauss" /\ given.energy.mono = 2000
    /\ self.energy.type = "mono" /\ self.energy.mono = 511

TypesInSets(src) ==
    /\ src.energy.type \in energy_types
    /\ src.direction.type \in direction_types
    /\ src.energy.spectrum_type \in valid_spectrum_types \cup {"None"}

\* C6 as stated: a completed initialize leaves the three types in their sets,
\* and a configuration with one of them outside its set does not pass.
C6_TypesRejected ==
    /\ pc = "done" => TypesInSets(self)
    /\ (Called /\ ~TypesInSets(given)) => pc # "done"

\* the energy type that initialize checks
EffectiveEnergyType(src) ==
    IF src.particle = s_back_to_back THEN "mono" ELSE src.energy.type

\* C6 amended: a completed initialize leaves the three types in their sets; an
\* energy.type outside its set is fatal unless the particle is back_to_back
\* (which replaces it by mono before the check); a spectrum_type outside its
\* set is then fatal; a direction.type outside its set never passes: it is
\* fatal unless the time-activity curve or the histogram, which are handled
\* first, already ended initialize.
C6_TypesChecked ==
    /\ pc = "done" => TypesInSets(self)
    /\ Called =>
        IF EffectiveEnergyType(given) \notin energy_types
        THEN pc = "fatal" /\ err = "energy_type"
        ELSE IF given.energy.spectrum_type \notin valid_spectrum_types \cup {"None"}
        THEN pc = "fatal" /\ err = "spectrum_type"
        ELSE given.direction.type \notin direction_types =>
                \/ pc = "fatal" /\ err \in {"direction_type", "tac_size", "histogram_size"}
                \/ pc = "error" /\ err \in {"TypeError", "IndexError", "AttributeError"}

\* C6 witness: a source rejected for its direction type.
C6_Witness ==
    /\ pc = "fatal" /\ err = "direction_type"
    /\ given.direction.type = "bogus"
    /\ given.energy.type = "gauss"

\* C8: after validation user_particle_life_time is 0 if half_life > 0 and the
\* life time was negative, and is what the user set in every other case;
\* half_life is never changed.
C8_LifeTime ==
    /\ Called => self.half_life = given.half_life
    /\ pc = "done" =>
          self.user_particle_life_time =
              IF given.half_life > 0 /\ given.user_particle_life_time < 0
              THEN 0 ELSE given.user_particle_life_time

\* C8 witness: an accepted source with a half life whose unset life time became 0.
C8_Witness ==
    /\ pc = "done"
    /\ given.half_life > 0 /\ given.user_particle_life_time < 0
    /\ self.user_particle_life_time = 0
    /\ self.half_life = given.half_life

TypeErrors == {"energy_type", "spectrum_type", "direction_type"}

\* C9 as stated: the type checks come first, before the back-to-back override,
\* the n/activity rule and the time-activity curve: a configuration with a type
\* outside its set ends with the fatal error of a type check, and nothing of
\* the source has been changed when that error is raised.
C9_TypesFirst ==
    (Called /\ BoxesOk(given)) =>
        /\ ~TypesInSets(given) => (pc = "fatal" /\ err \in TypeErrors)
        /\ (pc = "fatal" /\ err \in TypeErrors) => self = given

\* The steps of initialize in the order of the code, by the error each raises.
StepOf(e) ==
    CASE e \in {"position_not_box", "direction_not_box", "energy_not_box"} -> 1
      [] e = "energy_type" -> 3
      [] e = "spectrum_type" -> 4
      [] e \in {"tac_size", "TypeError", "IndexError"} -> 5
      [] e \in {"histogram_size", "AttributeError"} -> 6
      [] e = "direction_type" -> 7
      [] e \in {"both_n_activity", "no_n_activity"} -> 9
      [] e = "none" -> 11

TacViolated(src) ==
    LET t == src.tac_times
        a == src.tac_activities
    IN /\ ~NoTac(src)
       /\ \/ t.kind = "None" \/ a.kind = "None"
          \/ Len(t.list) # Len(a.list)
          \/ Len(t.list) = 0

HistogramViolated(src) ==
    LET w == src.energy.histogram_weight
        e == src.energy.histogram_energy
    IN /\ EffectiveEnergyType(src) = "histogram"
       /\ \/ w.kind # "list" \/ e.kind # "list"
          \/ Len(w.list) # Len(e.list)

\* the activity the n/activity rule sees
EffectiveActivity(src) ==
    IF NoTac(src) THEN src.activity ELSE src.tac_activities.list[1]

\* the first step of the code's order that a configuration violates
FirstViolated(src) ==
    IF ~BoxesOk(src) THEN 1
    ELSE IF EffectiveEnergyType(src) \notin energy_types THEN 3
    ELSE IF src.energy.spectrum_type \notin valid_spectrum_types \cup {"None"} THEN 4
    ELSE IF TacViolated(src) THEN 5
    ELSE IF HistogramViolated(src) THEN 6
    ELSE IF src.direction.type \notin direction_types THEN 7
    ELSE IF ~Exclusive(src.n, EffectiveActivity(src)) THEN 9
    ELSE 11

\* C9 amended: initialize runs, in this order: 1 the Box checks, 2 the
\* back-to-back override, 3 the energy.type check, 4 the spectrum_type check,
\* 5 the time-activity curve (length check, then override of start_time and
\* activity), 6 the histogram length check, 7 the direction.type check, 8 the
\* half-life coercion (and the base initialization), 9 the n/activity rule,
\* 10 the confine advisory.  The error raised is that of the first violated
\* step in this order, and when it is raised the changes of the earlier steps
\* have been made and those of the later steps have not.
C9_CodeOrder ==
    Called =>
        LET k == StepOf(err)
            tac == ~NoTac(given)
        IN /\ k = FirstViolated(given)
           /\ (pc = "done") = (k = 11)
           /\ k = 1 => self = given
           /\ k > 2 => /\ self.energy.type = EffectiveEnergyType(given)
                       /\ self.energy.mono = IF given.particle = s_back_to_back
                                             THEN 511 ELSE given.energy.mono
           /\ k <= 5 => /\ self.start_time = given.start_time
                        /\ self.activity = given.activity
                        /\ g4.tac_set = 0
           /\ k > 5 => /\ k <= 9 => self.activity = EffectiveActivity(given)
                       /\ self.start_time = IF tac THEN given.tac_times.list[1]
                                            ELSE given.start_time
                       /\ g4.tac_set = IF tac THEN 1 ELSE 0
           /\ k <= 7 => /\ self.user_particle_life_time = given.user_particle_life_time
                        /\ ~g4.initialized
           /\ k > 7 => /\ self.user_particle_life_time =
                              IF given.half_life > 0 /\ given.user_particle_life_time < 0
                              THEN 0 ELSE given.user_particle_life_time
                       /\ g4.initialized
           /\ k <= 9 => self.n = given.n /\ ~warned
           /\ k > 9 => /\ self.n = IF EffectiveActivity(given) > 0 THEN 0 ELSE given.n
                       /\ self.activity = IF self.n > 0 THEN 0
                                          ELSE EffectiveActivity(given)
                       /\ warned = (given.position.confine # "None"
                                    /\ given.position.type = "point")

\* C9 witness: a source with a curve of mismatched lengths, an unknown direction
\* type and a half life: the curve's error is raised, the back-to-back override
\* has been made, and the life time has not been coerced.
C9_Witness ==
    /\ pc = "fatal" /\ err = "tac_size"
    /\ given.direction.type = "bogus"
    /\ given.particle = s_back_to_back /\ given.energy.type = "histogram"
    /\ self.energy.type = "mono"
    /\ given.half_life > 0 /\ self.user_particle_life_time < 0

ValidTac(src) ==
    /\ src.tac_times.kind = "list" /\ src.tac_activities.kind = "list"
    /\ Len(src.tac_times.list) = Len(src.tac_activities.list)
    /\ Len(src.tac_times.list) > 0

\* C11: the n/activity rule of initialize sees the activity after the override
\* by the time-activity curve, not the activity the user set: with a valid
\* curve whose first activity is strictly positive a source with n > 0 is
\* rejected with the 'both n and activity' fatal error whatever activity the
\* user set, and a source with n = 0 is accepted with activity =
\* tac_activities[0]; with a curve whose first activity is 0 and n = 0 the
\* source is rejected whatever activity the user set.
C11_RuleAfterCurve ==
    (Called /\ ValidTac(given)) =>
        LET a1 == given.tac_activities.list[1]
        IN /\ (a1 > 0 /\ given.n > 0) => (pc = "fatal" /\ err = "both_n_activity")
           /\ (a1 > 0 /\ given.n = 0) => (pc = "done" /\ self.activity = a1)
           /\ (a1 = 0 /\ given.n = 0) => (pc = "fatal" /\ err = "no_n_activity")

\* C11 witness: a source with n > 0, activity set to 0 and a curve starting
\* with a positive activity, rejected for using both n and activity.
C11_Witness ==
    /\ pc = "fatal" /\ err = "both_n_activity"
    /\ given.n > 0 /\ given.activity = 0
    /\ ValidTac(given) /\ given.tac_activities.list[1] > 0

CdfCalls == <<g4.energy_cdf_set, g4.probability_cdf_set>>

\* C12: the positron-spectrum branch of initialize is inert unless the
\* particle is "e+": for any other particle initialize leaves energy.is_cdf
\* as the user set it and makes no SetEnergyCDF / SetProbabilityCDF call, even
\* when energy.type names a beta-plus radionuclide; so it does for "e+" with
\* another energy type.  For "e+" with a beta-plus radionuclide as energy.type
\* every initialize that gets past the spectrum_type check, and so every one
\* that returns, leaves energy.is_cdf true and has made each of the two calls
\* exactly once; one that is rejected before the branch has changed nothing.
C12_PositronBranch ==
    Called =>
        LET beta_plus == /\ given.particle = s_eplus
                         /\ given.energy.type \in all_beta_plus_radionuclides
        IN IF beta_plus /\ StepOf(err) > 4
           THEN self.energy.is_cdf /\ CdfCalls = <<1, 1>>
           ELSE self.energy.is_cdf = given.energy.is_cdf /\ CdfCalls = <<0, 0>>

\* C12 witness: an accepted "e+" source of energy type F18 whose is_cdf the
\* user had left false.
C12_Witness ==
    /\ pc = "done"
    /\ given.particle = s_eplus /\ given.energy.type = "F18"
    /\ ~given.energy.is_cdf
    /\ self.energy.is_cdf /\ CdfCalls = <<1, 1>>

\* A gamma source of energy type F18 whose initialize returned.
C12_OtherParticle ==
    /\ pc = "done"
    /\ given.particle = s_gamma /\ given.energy.type = "F18"

====
